---- MODULE Spec2Model ----
(***************************************************************************)
(* Model of the message namespace of remind_clone_web_server               *)
(* (src/unnamed/part_000, class MessageNamespace).                         *)
(*                                                                         *)
(* One action is one run-to-completion step of the single-threaded event   *)
(* loop: the synchronous part of a handler up to its next `await`, or the  *)
(* continuation that runs when the awaited promise settles.                *)
(*                                                                         *)
(* The services (messageService, userService, fileService) are not part    *)
(* of these sources; they are modelled from the design document as         *)
(* stores that assign consecutive ids and may reject any call.             *)
(*                                                                         *)
(* The socket.io namespace is modelled as the 2.x library behaves, which   *)
(* is the version in which `Object.values(nsp.sockets)` is meaningful:     *)
(*   - nsp.in(room) pushes room on nsp.rooms and returns the namespace;    *)
(*   - nsp.sockets is the hash of every connected socket of the namespace; *)
(*   - nsp.emit(...) broadcasts to the union of nsp.rooms and resets it;   *)
(*   - socket.join(room) updates the adapter synchronously.                *)
(***************************************************************************)
EXTENDS Integers, Sequences, FiniteSets, TLC

\* ------------------------------------------------------------------ bounds
MaxEvents == 2
MaxSockets == 2
NumUsers == 3
NumClassrooms == 2
MaxReceivers == 2
MaxConvId == 1

Users == 1..NumUsers
Classrooms == 1..NumClassrooms
SocketIds == 1..MaxSockets
TaskIds == 1..MaxEvents

\* ------------------------------------------------------------- JS helpers
\* JS values that matter for `||`: a boolean field is "true", "false" or
\* "absent" (undefined); only "true" is truthy.
Truthy(v) == v = "true"

\* A slip: a ?? b, which keeps an explicit false.
JsOrNullish(a, b) == IF a = "absent" THEN b ELSE a

\* a || b
JsOr(a, b) == IF Truthy(a) THEN a ELSE b

\* `user#${userId}`
UserChannel(id) == <<"user", id>>

\* `convo#${id}`
ConvoChannel(id) == <<"convo", id>>

\* receivers.map((r) => r["id"])
RECURSIVE MapId(_)
MapId(rs) == IF rs = <<>> THEN <<>> ELSE <<Head(rs).id>> \o MapId(Tail(rs))

SeqToSet(s) == {s[i] : i \in DOMAIN s}

\* A user object as the client sends it: { id, name }.
UserObj(u) == [id |-> u, name |-> <<"name", u>>]

\* No attachment (attachment == null / undefined).
NoAttachment == [present |-> FALSE, id |-> 0]

\* An attachment as uploaded by the client; its id is not yet assigned (0).
ClientAttachment == [present |-> TRUE, id |-> 0]

VARIABLES
    socks,      \* SocketIds -> connection: state, user, rooms, fetched ids
    nspRooms,   \* nsp.rooms: rooms accumulated by nsp.in() since the last emit
    convos,     \* Conversation Store: sequence of records, id = index
    messages,   \* Message Store: sequence of records, id = index
    files,      \* Attachment Resolver: number of files inserted
    tasks,      \* TaskIds -> one handled event (an async handler invocation)
    emits       \* sequence of broadcasts, in emission order

vars == <<socks, nspRooms, convos, messages, files, tasks, emits>>

IdleSock == [state |-> "off", user |-> 0, rooms |-> {}, fetched |-> {}]

IdleTask ==
    [pc |-> "idle", event |-> "none", handler |-> "none", sock |-> 0,
     fn |-> "none", hasFn |-> FALSE,
     sender |-> UserObj(0), receivers |-> <<>>, classroomId |-> 0,
     conversationId |-> 0, canReply |-> "absent",
     attachment |-> NoAttachment,
     convoIdIfExist |-> 0, created |-> 0, lookupLen |-> 0,
     resp |-> 0, rejected |-> FALSE, acks |-> <<>>]

Init ==
    /\ socks = [s \in SocketIds |-> IdleSock]
    /\ nspRooms = {}
    /\ convos = <<>>
    /\ messages = <<>>
    /\ files = 0
    /\ tasks = [t \in TaskIds |-> IdleTask]
    /\ emits = <<>>

\* ------------------------------------------------------------ the stores
\* userService.getUserConversationIds(userId): ids of the conversations the
\* user participates in.
GetUserConversationIds(userId) ==
    {i \in DOMAIN convos : userId \in SeqToSet(convos[i].users)}

\* messageService.getTwoUsersConvoId(a, b, classroomId): id of an existing
\* single conversation of the pair in that classroom, 0 (null) when none.
GetTwoUsersConvoId(a, b, classroomId) ==
    LET found == {i \in DOMAIN convos :
                     /\ convos[i].type = "single"
                     /\ convos[i].classroom_id = classroomId
                     /\ SeqToSet(convos[i].users) = {a, b}}
    IN IF found = {} THEN 0 ELSE CHOOSE i \in found : \A j \in found : i <= j

\* messageService.createNewConversation(convo, userIds): the record stored;
\* its id is its position. task and lookupLen are history fields: the event
\* that created it and the number of conversations stored when that event's
\* lookup ran.
NewConversation(type, creatorId, classroomId, userIds, t) ==
    [type |-> type, creator_id |-> creatorId, classroom_id |-> classroomId,
     users |-> userIds, task |-> t, lookupLen |-> tasks[t].lookupLen]

\* messageService.insertMessage(row): the record stored; id = position.
NewMessageRow(senderId, conversationId, attachmentId, t) ==
    [sender_id |-> senderId, conversation_id |-> conversationId,
     attachment_id |-> attachmentId, task |-> t]

\* ------------------------------------------------------- the namespace
Connected == {s \in SocketIds : socks[s].state # "off"}

\* socket.join(room) for every socket of a set
JoinAll(sk, ss, room) ==
    [s \in SocketIds |->
        IF s \in ss THEN [sk[s] EXCEPT !.rooms = @ \cup {room}] ELSE sk[s]]

\* A slip: the fan-out finds no socket in a user channel.
SocketsInNone(channel) == {}

\* Object.values(this.nsp.in(channel).sockets): in() returns the namespace,
\* whose sockets hash holds every connected socket.
SocketsIn(channel) == Connected

\* A slip: the fan-out subscribes nobody.
FanOutSkip(sk, userIds, newConvoChannel) == sk

\* allUserChannels.forEach(channel => sockets.forEach(s => s.join(newConvoChannel)))
RECURSIVE FanOut(_, _, _)
FanOut(sk, userIds, newConvoChannel) ==
    IF userIds = <<>> THEN sk
    ELSE FanOut(JoinAll(sk, SocketsIn(UserChannel(Head(userIds))), newConvoChannel),
                Tail(userIds), newConvoChannel)

\* The rooms the fan-out leaves on nsp.rooms (one nsp.in() per participant).
FanOutRooms(userIds) == {UserChannel(u) : u \in SeqToSet(userIds)}

\* this.nsp.in(chan).emit(ev, payload): the broadcast goes to the rooms
\* accumulated on the namespace plus chan, and reaches the sockets that are
\* in one of them. stored is a history field: the number of messages the
\* Message Store held when the broadcast was emitted.
Emit(t, pending, chan, ev, msg, convoId, convoType, convoName) ==
    LET rooms == pending \cup {chan}
    IN [task |-> t, event |-> ev, chan |-> chan, rooms |-> rooms,
        to |-> {s \in Connected : socks[s].rooms \cap rooms # {}},
        stored |-> Len(messages),
        msg |-> msg, convoId |-> convoId, convoType |-> convoType,
        conversation_name |-> convoName]

\* ------------------------------------------------------ session bootstrap
\* joinUserChannel(): this.socket.join(`user#${userId}`)
JoinUserChannel(userId) == {UserChannel(userId)}

\* A slip: the ids are joined under the user prefix.
JoinConvoChannelsAsUser(arr) == {UserChannel(id) : id \in arr}

\* arr.forEach((id) => this.socket.join(`convo#${id}`))
JoinConvoChannels(arr) == {ConvoChannel(id) : id \in arr}

\* init(): joinUserChannel(), joinConvoChannels() up to the fetch, and the
\* registration of the two event handlers.
Connect(s, u) ==
    /\ socks[s].state = "off"
    /\ IF s = 1 THEN TRUE ELSE socks[s - 1].state # "off"
    /\ socks' = [socks EXCEPT ![s] =
                    [state |-> "fetching", user |-> u,
                     rooms |-> JoinUserChannel(u), fetched |-> {}]]
    /\ UNCHANGED <<nspRooms, convos, messages, files, tasks, emits>>

\* The store answers getUserConversationIds (or rejects: the promise has no
\* catch, nothing is joined).
FetchExec(s, ok) ==
    /\ socks[s].state = "fetching"
    /\ socks' = [socks EXCEPT ![s] =
                    IF ok
                    THEN [@ EXCEPT !.state = "fetched",
                                   !.fetched = GetUserConversationIds(socks[s].user)]
                    ELSE [@ EXCEPT !.state = "failed"]]
    /\ UNCHANGED <<nspRooms, convos, messages, files, tasks, emits>>

\* .then((arr) => arr.forEach((id) => this.socket.join(`convo#${id}`)))
FetchResolve(s) ==
    /\ socks[s].state = "fetched"
    /\ socks' = [socks EXCEPT ![s] =
                    [@ EXCEPT !.state = "ready",
                              !.rooms = @ \cup JoinConvoChannels(socks[s].fetched)]]
    /\ UNCHANGED <<nspRooms, convos, messages, files, tasks, emits>>

\* ------------------------------------------------------- handler helpers
\* The outbound representation built from the input (no id yet).
BroadcastMessage(tk, conversationId) ==
    [id |-> 0, sender |-> tk.sender, conversationId |-> conversationId,
     canReply |-> JsOr(tk.canReply, "true"), attachment |-> tk.attachment]

NoMessage ==
    [id |-> 0, sender |-> UserObj(0), conversationId |-> 0,
     canReply |-> "absent", attachment |-> NoAttachment]

\* if (fn) fn(err, msg): only the client's callback is observable; the
\* default parameter `function (err, msg) {}` does nothing.
CallFn(tk, ack) ==
    IF tk.fn = "client" THEN [tk EXCEPT !.acks = Append(@, ack)] ELSE tk

\* if (fn) fn(null, broadcastMessage)
AckProvisional(tk, conversationId) ==
    CallFn(tk, [err |-> FALSE, msg |-> BroadcastMessage(tk, conversationId)])

\* A slip: the error is reported twice.
OnErrorTwice(tk) ==
    [CallFn(CallFn(tk, [err |-> TRUE, msg |-> NoMessage]),
            [err |-> TRUE, msg |-> NoMessage]) EXCEPT !.pc = "done"]

\* A slip: the error is logged and not reported.
OnErrorSilent(tk) == [tk EXCEPT !.pc = "done"]

\* catch (err) { debug(err); if (fn) fn(new Error(errorMsg.DEFAULT)); }
OnError(tk) ==
    [CallFn(tk, [err |-> TRUE, msg |-> NoMessage]) EXCEPT !.pc = "done"]

\* History: a store call of this event was rejected.
Rejected(tk) == [tk EXCEPT !.rejected = TRUE]

\* attachment_id: attachment ? attachment.id : undefined
AttachmentId(attachment) == IF attachment.present THEN attachment.id ELSE 0

\* The fn parameter of _newMessageHandler: the callback passed, or the
\* default no-op function when none is passed.
NewMessageFn(passed) == IF passed THEN "client" ELSE "noop"

\* The synchronous part of _newMessageHandler(message, fn): build the
\* message, ack it, then await insertFile (attachment) or insertMessage.
NewMessageStart(tk, conversationId, passed) ==
    LET tk1 == [tk EXCEPT !.handler = "new", !.conversationId = conversationId,
                          !.fn = NewMessageFn(passed)]
        tk2 == AckProvisional(tk1, conversationId)
    IN [tk2 EXCEPT !.pc = IF tk.attachment.present THEN "file" ELSE "msg"]

\* ---------------------------------------------------------- the inputs
ReceiverLists == UNION {[1..n -> Users] : n \in 0..MaxReceivers}
CanReplyValues == {"true", "false", "absent"}
Attachments == {NoAttachment, ClientAttachment}
ConversationIds == 1..MaxConvId

NewTask(t, s, ev, sender, canReply, attachment, hasFn) ==
    [IdleTask EXCEPT !.event = ev, !.sock = s, !.sender = UserObj(sender),
                     !.canReply = canReply, !.attachment = attachment,
                     !.hasFn = hasFn]

CanStart(t, s) ==
    /\ tasks[t].pc = "idle"
    /\ IF t = 1 THEN TRUE ELSE tasks[t - 1].pc # "idle"
    /\ s \in Connected

\* ------------------------------------------------------------- NEW_MESSAGE
\* socket.on(NEW_MESSAGE, _newMessageHandler): the event arrives on socket s.
NewMessageEvent(t, s, sender, conversationId, canReply, attachment, hasFn) ==
    /\ CanStart(t, s)
    /\ tasks' = [tasks EXCEPT ![t] =
                    NewMessageStart(
                        NewTask(t, s, "NEW_MESSAGE", sender, canReply, attachment, hasFn),
                        conversationId, hasFn)]
    /\ UNCHANGED <<socks, nspRooms, convos, messages, files, emits>>

\* await fileService.insertFile(message.attachment) settles (handler "new"
\* only: the new-conversation handlers never call it).
FileResolve(t, ok) ==
    /\ tasks[t].pc = "file"
    /\ IF ok
       THEN /\ files' = files + 1
            /\ tasks' = [tasks EXCEPT ![t] =
                            [@ EXCEPT !.attachment.id = files + 1, !.pc = "msg"]]
       ELSE /\ files' = files
            /\ tasks' = [tasks EXCEPT ![t] = OnError(Rejected(@))]
    /\ UNCHANGED <<socks, nspRooms, convos, messages, emits>>

\* A slip: the row is written for the authenticated user of the connection.
RowSenderOfSocket(tk) == socks[tk.sock].user

\* sender_id: message.sender.id
RowSender(tk) == tk.sender.id

\* A slip: the row is written with the result of the lookup.
RowConversationOfLookup(tk) == tk.convoIdIfExist

\* conversation_id: message.conversationId / newConvoId
RowConversation(tk) == tk.conversationId

\* The Message Store executes the insertMessage the handler awaits: the row
\* gets the next id, or the call is rejected (resp = 0).
MsgExec(t, ok) ==
    /\ tasks[t].pc = "msg"
    /\ IF ok
       THEN /\ messages' = Append(messages,
                    NewMessageRow(RowSender(tasks[t]), RowConversation(tasks[t]),
                                  AttachmentId(tasks[t].attachment), t))
            /\ tasks' = [tasks EXCEPT ![t] =
                            [@ EXCEPT !.resp = Len(messages) + 1, !.pc = "msgDone"]]
       ELSE /\ messages' = messages
            /\ tasks' = [tasks EXCEPT ![t] =
                            [Rejected(@) EXCEPT !.resp = 0, !.pc = "msgDone"]]
    /\ UNCHANGED <<socks, nspRooms, convos, files, emits>>

\* A slip: the broadcast carries the id that follows the stored message's.
WithIdNext(tk) ==
    [BroadcastMessage(tk, tk.conversationId) EXCEPT !.id = tk.resp + 1]

\* A slip: the id of the stored message is not copied to the broadcast.
WithIdUnset(tk) == BroadcastMessage(tk, tk.conversationId)

\* broadcastMessage.id = newMessage.id
WithId(tk) ==
    [BroadcastMessage(tk, tk.conversationId) EXCEPT !.id = tk.resp]

\* A slip: the sender's copy is labelled with the sender's own name.
SenderViewNameOwn(tk) == tk.sender.name

\* newConvo.conversation_name = receivers[0].name (the sender's view)
SenderViewName(tk) == tk.receivers[1].name

\* newConvo.conversation_name = sender.name (the receiver's view)
ReceiverViewName(tk) == tk.sender.name

\* newConvo.conversation_name = "New Group"
GroupName == "New Group"

\* The broadcasts of the continuation that follows insertMessage, in order.
\* Only the first emit sees the rooms left on the namespace.
EmitsOf(t, tk, pending) ==
    CASE tk.handler = "new" ->
            <<Emit(t, pending, ConvoChannel(tk.conversationId), "NEW_MESSAGE",
                   WithId(tk), 0, "none", "none")>>
      [] tk.handler = "group" ->
            <<Emit(t, pending, ConvoChannel(tk.created), "FIRST_TIME_MESSAGE",
                   WithId(tk), tk.created, "group", GroupName)>>
      [] tk.handler = "single" ->
            <<Emit(t, pending, UserChannel(tk.sender.id), "FIRST_TIME_MESSAGE",
                   WithId(tk), tk.created, "single", SenderViewName(tk)),
              Emit(t, {}, UserChannel(tk.receivers[1].id), "FIRST_TIME_MESSAGE",
                   WithId(tk), tk.created, "single", ReceiverViewName(tk))>>

\* await messageService.insertMessage(...) settles: the continuation sets
\* the id and broadcasts, or the catch block reports the error.
MsgResolve(t) ==
    /\ tasks[t].pc = "msgDone"
    /\ IF tasks[t].resp # 0
       THEN /\ emits' = emits \o EmitsOf(t, tasks[t], nspRooms)
            /\ nspRooms' = {}
            /\ tasks' = [tasks EXCEPT ![t] = [@ EXCEPT !.pc = "done"]]
       ELSE /\ emits' = emits
            /\ nspRooms' = nspRooms
            /\ tasks' = [tasks EXCEPT ![t] = OnError(@)]
    /\ UNCHANGED <<socks, convos, messages, files>>

\* ------------------------------------------------------ CREATE_NEW_MESSAGE
\* receivers.length === 1
IsSingle(receivers) == Len(receivers) = 1

\* createNewMessageHandler(data, fn): dispatch on the number of receivers.
\* Both handlers run up to their first await: getTwoUsersConvoId (single)
\* or createNewConversation (group).
CreateNewMessageEvent(t, s, sender, receivers, classroomId, canReply, attachment, hasFn) ==
    /\ CanStart(t, s)
    /\ tasks' = [tasks EXCEPT ![t] =
            [NewTask(t, s, "CREATE_NEW_MESSAGE", sender, canReply, attachment, hasFn)
                EXCEPT !.receivers = [i \in DOMAIN receivers |-> UserObj(receivers[i])],
                       !.classroomId = classroomId,
                       !.fn = IF hasFn THEN "client" ELSE "none",
                       !.handler = IF IsSingle(receivers) THEN "single" ELSE "group",
                       !.pc = IF IsSingle(receivers) THEN "lookup" ELSE "create"]]
    /\ UNCHANGED <<socks, nspRooms, convos, messages, files, emits>>

\* A slip: the result of the lookup is ignored.
ConvoExistsNever(convoIdIfExist) == FALSE

\* convoIdIfExist !== null
ConvoExists(convoIdIfExist) == convoIdIfExist # 0

\* Whether the delegation to _newMessageHandler passes the callback on.
\* The call at lines 224-232 has one argument: fn is not passed.
DelegatePassesFn(tk) == FALSE

\* A slip: the lookup is made for the sender alone.
LookupArgsSenderOnly(tk) == <<tk.sender.id, tk.sender.id, tk.classroomId>>

\* The arguments of getTwoUsersConvoId: sender.id, receiverIds[0], classroomId
LookupArgs(tk) == <<tk.sender.id, MapId(tk.receivers)[1], tk.classroomId>>

\* await messageService.getTwoUsersConvoId(...) settles. Found: delegate to
\* _newMessageHandler. Not found: call createNewConversation.
LookupResolve(t, ok) ==
    /\ tasks[t].pc = "lookup"
    /\ LET tk == tasks[t]
           args == LookupArgs(tk)
           id == GetTwoUsersConvoId(args[1], args[2], args[3])
           tk1 == [tk EXCEPT !.convoIdIfExist = id, !.lookupLen = Len(convos)]
       IN tasks' = [tasks EXCEPT ![t] =
               IF ~ok THEN OnError(Rejected(tk))
               ELSE IF ConvoExists(id)
                    THEN NewMessageStart(tk1, id, DelegatePassesFn(tk1))
                    ELSE [tk1 EXCEPT !.pc = "create"]]
    /\ UNCHANGED <<socks, nspRooms, convos, messages, files, emits>>

\* A slip: the sender is left out of the participants.
AllUserIdsNoSender(tk) == MapId(tk.receivers)

\* let allUserIds = [sender.id, ...receiverIds]  (group)
\* let allUserIds = [sender.id, receiverIds[0]]  (single)
AllUserIds(tk) ==
    IF tk.handler = "group"
    THEN <<tk.sender.id>> \o MapId(tk.receivers)
    ELSE <<tk.sender.id, MapId(tk.receivers)[1]>>

\* The Conversation Store executes the createNewConversation the handler
\* awaits: the conversation gets the next id (created), or the call is
\* rejected (created = 0).
CreateExec(t, ok) ==
    /\ tasks[t].pc = "create"
    /\ LET tk == tasks[t]
       IN IF ok
          THEN /\ convos' = Append(convos,
                      NewConversation(tk.handler, tk.sender.id, tk.classroomId,
                                      AllUserIds(tk), t))
               /\ tasks' = [tasks EXCEPT ![t] =
                      [tk EXCEPT !.created = Len(convos) + 1, !.pc = "createDone"]]
          ELSE /\ convos' = convos
               /\ tasks' = [tasks EXCEPT ![t] =
                      [Rejected(tk) EXCEPT !.created = 0, !.pc = "createDone"]]
    /\ UNCHANGED <<socks, nspRooms, messages, files, emits>>

\* await messageService.createNewConversation(...) settles: every socket
\* found by the fan-out joins the channel of the new conversation, the
\* provisional message is acked and insertMessage is called; or the catch
\* block reports the error.
CreateResolve(t) ==
    /\ tasks[t].pc = "createDone"
    /\ LET tk == tasks[t]
           newConvoId == tk.created
           allUserIds == AllUserIds(tk)
       IN IF newConvoId # 0
          THEN /\ socks' = FanOut(socks, allUserIds, ConvoChannel(newConvoId))
               /\ nspRooms' = nspRooms \cup FanOutRooms(allUserIds)
               /\ tasks' = [tasks EXCEPT ![t] =
                      [AckProvisional([tk EXCEPT !.conversationId = newConvoId],
                                      newConvoId)
                          EXCEPT !.pc = "msg"]]
          ELSE /\ socks' = socks
               /\ nspRooms' = nspRooms
               /\ tasks' = [tasks EXCEPT ![t] = OnError(tk)]
    /\ UNCHANGED <<convos, messages, files, emits>>

\* ---------------------------------------------------------- specifications
\* The inputs of an event, as records.
NewInputs(senders, convIds, canReplies, attachments, fns) ==
    [sender : senders, conversationId : convIds, canReply : canReplies,
     attachment : attachments, hasFn : fns]

CreateInputs(senders, receiverLists, classrooms, canReplies, attachments, fns) ==
    [sender : senders, receivers : receiverLists, classroomId : classrooms,
     canReply : canReplies, attachment : attachments, hasFn : fns]

Connection(S, U) == \E s \in S, u \in U : Connect(s, u)

Bootstrap(S, U) ==
    \/ Connection(S, U)
    \/ \E s \in S, ok \in BOOLEAN : FetchExec(s, ok)
    \/ \E s \in S : FetchResolve(s)

NewMessage(S, NI) ==
    \E t \in TaskIds, s \in S, in \in NI :
        NewMessageEvent(t, s, in.sender, in.conversationId, in.canReply,
                        in.attachment, in.hasFn)

Attach == \E t \in TaskIds, ok \in BOOLEAN : FileResolve(t, ok)

CreateNewMessage(S, CI) ==
    \/ \E t \in TaskIds, s \in S, in \in CI :
          CreateNewMessageEvent(t, s, in.sender, in.receivers, in.classroomId,
                                in.canReply, in.attachment, in.hasFn)
    \/ \E t \in TaskIds, ok \in BOOLEAN : LookupResolve(t, ok)
    \/ \E t \in TaskIds, ok \in BOOLEAN : CreateExec(t, ok)
    \/ \E t \in TaskIds : CreateResolve(t)

Persist ==
    \/ \E t \in TaskIds, ok \in BOOLEAN : MsgExec(t, ok)
    \/ \E t \in TaskIds : MsgResolve(t)

\* Conversations: every sender, receivers list and classroom, arriving on
\* one connection (whose own bootstrap fetch stays pending: it reads the
\* Conversation Store and writes nothing the handlers read).
ConvoInputs ==
    CreateInputs(Users, ReceiverLists, Classrooms, {"absent"}, {NoAttachment}, {TRUE})

NextConvo ==
    \/ Connection({1}, {1})
    \/ CreateNewMessage({1}, ConvoInputs)
    \/ Persist

SpecConvo == Init /\ [][NextConvo]_vars

\* Acknowledgements: the three handlers, called with a callback, with and
\* without an attachment, for one sender, one pair and one group, arriving
\* on one connection.
AckNewInputs ==
    NewInputs({1}, ConversationIds, {"absent"}, Attachments, {TRUE})

AckCreateInputs ==
    CreateInputs({1}, {<<2>>, <<2, 3>>}, {1}, {"absent"}, Attachments, {TRUE})

NextAck ==
    \/ Connection({1}, {1})
    \/ NewMessage({1}, AckNewInputs)
    \/ Attach
    \/ CreateNewMessage({1}, AckCreateInputs)
    \/ Persist

SpecAck == Init /\ [][NextAck]_vars

\* Channels: connections of every user, and the events of one sender that
\* start a single and a group conversation or write to conversation 1.
ChanNewInputs ==
    NewInputs({1}, {1}, {"absent"}, {NoAttachment}, {FALSE})

ChanCreateInputs ==
    CreateInputs({1}, {<<2>>, <<2, 3>>}, {1}, {"absent"}, {NoAttachment}, {FALSE})

NextChan ==
    \/ Bootstrap(SocketIds, Users)
    \/ NewMessage(SocketIds, ChanNewInputs)
    \/ CreateNewMessage(SocketIds, ChanCreateInputs)
    \/ Persist

SpecChan == Init /\ [][NextChan]_vars

\* Client input: NEW_MESSAGE events naming any sender and any canReply,
\* and the events of one sender that start a single and a group
\* conversation with any canReply, arriving on the connection of user 1.
InputNewInputs ==
    NewInputs(Users, ConversationIds, CanReplyValues, {NoAttachment}, {TRUE})

InputCreateInputs ==
    CreateInputs({1}, {<<2>>, <<2, 3>>}, {1}, CanReplyValues, {NoAttachment}, {TRUE})

NextInput ==
    \/ Connection({1}, {1})
    \/ NewMessage({1}, InputNewInputs)
    \/ CreateNewMessage({1}, InputCreateInputs)
    \/ Persist

SpecInput == Init /\ [][NextInput]_vars

\* Progress: a connection of user 1 and a connection of user 2 bootstrap
\* while the events received on connection 1 start a single and a group
\* conversation. Every store
\* call settles and the event loop runs the continuation of every settled
\* call; no client is obliged to connect or to send.
Settle ==
    \/ \E s \in SocketIds, ok \in BOOLEAN : FetchExec(s, ok)
    \/ \E s \in SocketIds : FetchResolve(s)
    \/ \E t \in TaskIds, ok \in BOOLEAN : LookupResolve(t, ok)
    \/ \E t \in TaskIds, ok \in BOOLEAN : CreateExec(t, ok)
    \/ \E t \in TaskIds : CreateResolve(t)
    \/ Persist

NextLive ==
    \/ Bootstrap({1}, {1})
    \/ Bootstrap({2}, {2})
    \/ CreateNewMessage({1}, ChanCreateInputs)
    \/ Persist

SpecLive == Init /\ [][NextLive]_vars /\ WF_vars(Settle)

\* ------------------------------------------------------------- properties
\* The broadcasts, conversations and messages of one handled event.
EmitsBy(t) == SelectSeq(emits, LAMBDA e : e.task = t)
ConvosBy(t) == {c \in DOMAIN convos : convos[c].task = t}
MessagesBy(t) == {m \in DOMAIN messages : messages[m].task = t}

\* The event was handled to its end and no store call was rejected.
Succeeded(t) == tasks[t].pc = "done" /\ ~tasks[t].rejected

IsCreate(t) == tasks[t].event = "CREATE_NEW_MESSAGE"

\* C1: a successful CREATE_NEW_MESSAGE with exactly one receiver whose
\* lookup found no conversation creates exactly one conversation, of type
\* single with participants sender and receiver, and emits exactly two
\* FIRST_TIME_MESSAGE broadcasts: the first to user#<sender.id> labelled
\* with the receiver's name, the second to user#<receiver.id> labelled with
\* the sender's name.
C1_NewSingle ==
    \A t \in TaskIds :
        (/\ IsCreate(t) /\ Len(tasks[t].receivers) = 1
         /\ Succeeded(t) /\ tasks[t].convoIdIfExist = 0)
        => LET tk == tasks[t]
               es == EmitsBy(t)
           IN /\ Cardinality(ConvosBy(t)) = 1
              /\ \A c \in ConvosBy(t) :
                    /\ convos[c].type = "single"
                    /\ convos[c].users = <<tk.sender.id, tk.receivers[1].id>>
                    /\ convos[c].classroom_id = tk.classroomId
              /\ Len(es) = 2
              /\ \A i \in 1..2 : /\ es[i].event = "FIRST_TIME_MESSAGE"
                                 /\ es[i].convoId \in ConvosBy(t)
              /\ es[1].chan = UserChannel(tk.sender.id)
              /\ es[1].conversation_name = tk.receivers[1].name
              /\ es[2].chan = UserChannel(tk.receivers[1].id)
              /\ es[2].conversation_name = tk.sender.name

\* C1 witness: such an event between two different users has completed.
C1_Witness ==
    \E t \in TaskIds :
        /\ IsCreate(t) /\ Len(tasks[t].receivers) = 1
        /\ Succeeded(t) /\ tasks[t].convoIdIfExist = 0
        /\ tasks[t].sender.id # tasks[t].receivers[1].id
        /\ Len(EmitsBy(t)) = 2

\* C2: a successful CREATE_NEW_MESSAGE with exactly one receiver whose
\* lookup returned the existing conversation c creates no conversation,
\* persists its message with conversation id c and broadcasts it once, as
\* NEW_MESSAGE to convo#<c>; c is a single conversation of the pair in the
\* classroom of the event.
C2_ExistingSingle ==
    \A t \in TaskIds :
        (/\ IsCreate(t) /\ Len(tasks[t].receivers) = 1
         /\ Succeeded(t) /\ tasks[t].convoIdIfExist # 0)
        => LET tk == tasks[t]
               c == tk.convoIdIfExist
               es == EmitsBy(t)
           IN /\ ConvosBy(t) = {}
              /\ c \in DOMAIN convos
              /\ convos[c].type = "single"
              /\ convos[c].classroom_id = tk.classroomId
              /\ SeqToSet(convos[c].users) = {tk.sender.id, tk.receivers[1].id}
              /\ Cardinality(MessagesBy(t)) = 1
              /\ \A m \in MessagesBy(t) :
                    /\ messages[m].conversation_id = c
                    /\ messages[m].sender_id = tk.sender.id
              /\ Len(es) = 1
              /\ es[1].event = "NEW_MESSAGE"
              /\ es[1].chan = ConvoChannel(c)
              /\ es[1].msg.conversationId = c

\* C2 witness: an event has been appended to an existing conversation.
C2_Witness ==
    \E t \in TaskIds :
        /\ IsCreate(t) /\ Len(tasks[t].receivers) = 1
        /\ Succeeded(t) /\ tasks[t].convoIdIfExist # 0
        /\ Len(EmitsBy(t)) = 1

\* C3: a successful CREATE_NEW_MESSAGE with two or more receivers creates
\* exactly one conversation of its own, of type group, whose participants
\* are the sender followed by all receivers, and emits exactly one
\* broadcast: FIRST_TIME_MESSAGE to convo#<new id>, carrying the message
\* and the conversation named "New Group".
C3_NewGroup ==
    \A t \in TaskIds :
        (IsCreate(t) /\ Len(tasks[t].receivers) >= 2 /\ Succeeded(t))
        => LET tk == tasks[t]
               es == EmitsBy(t)
           IN /\ Cardinality(ConvosBy(t)) = 1
              /\ \A c \in ConvosBy(t) :
                    /\ convos[c].type = "group"
                    /\ convos[c].users = <<tk.sender.id>> \o MapId(tk.receivers)
                    /\ convos[c].classroom_id = tk.classroomId
                    /\ Len(es) = 1
                    /\ es[1].event = "FIRST_TIME_MESSAGE"
                    /\ es[1].chan = ConvoChannel(c)
                    /\ es[1].convoId = c
                    /\ es[1].convoType = "group"
                    /\ es[1].conversation_name = "New Group"
                    /\ es[1].msg.conversationId = c
                    /\ es[1].msg.id \in MessagesBy(t)

\* C3 witness: two group events with the same sender, receivers and
\* classroom have completed, each with a conversation of its own.
C3_Witness ==
    \E t1, t2 \in TaskIds :
        /\ t1 # t2
        /\ IsCreate(t1) /\ IsCreate(t2) /\ Succeeded(t1) /\ Succeeded(t2)
        /\ Len(tasks[t1].receivers) >= 2
        /\ tasks[t1].receivers = tasks[t2].receivers
        /\ tasks[t1].sender = tasks[t2].sender
        /\ tasks[t1].classroomId = tasks[t2].classroomId
        /\ tasks[t1].created # tasks[t2].created
        /\ tasks[t1].created # 0 /\ tasks[t2].created # 0

\* Two stored conversations are single conversations of the same classroom
\* and the same participant pair.
SamePair(c1, c2) ==
    /\ convos[c1].type = "single" /\ convos[c2].type = "single"
    /\ convos[c1].classroom_id = convos[c2].classroom_id
    /\ SeqToSet(convos[c1].users) = SeqToSet(convos[c2].users)

\* C7 as stated: at most one single conversation exists for a classroom
\* and participant pair, under any interleaving of the handlers.
C7_AtMostOneSingle ==
    \A c1, c2 \in DOMAIN convos : SamePair(c1, c2) => c1 = c2

\* C7 amended: two single conversations of the same classroom and pair
\* exist only when the handlers overlapped: the event that created the later
\* one ran its lookup before the earlier one was stored.
C7_DuplicateOnlyByOverlap ==
    \A c1, c2 \in DOMAIN convos :
        (SamePair(c1, c2) /\ c1 < c2) => convos[c2].lookupLen < c1

\* C7 witness: a second event for a pair has run its lookup after the
\* pair's conversation was stored, found it and completed without creating
\* another one.
C7_Witness ==
    \E t \in TaskIds, c \in DOMAIN convos :
        /\ IsCreate(t) /\ Len(tasks[t].receivers) = 1 /\ Succeeded(t)
        /\ tasks[t].convoIdIfExist = c
        /\ tasks[t].lookupLen >= c
        /\ convos[c].task # t
        /\ ConvosBy(t) = {}
        /\ \A c2 \in DOMAIN convos : SamePair(c, c2) => c = c2

\* C8: every stored conversation of type single has exactly two distinct
\* participants and every one of type group has at least two distinct
\* participants, whatever receivers list the dispatcher was given.
C8_ParticipantCounts ==
    \A c \in DOMAIN convos :
        /\ convos[c].type = "single" =>
              Len(convos[c].users) = 2 /\ Cardinality(SeqToSet(convos[c].users)) = 2
        /\ convos[c].type = "group" =>
              Cardinality(SeqToSet(convos[c].users)) >= 2

Last(seq) == seq[Len(seq)]

\* C4: a provisional ack carries no id and is given before the message is
\* stored; every broadcast is emitted after insertMessage has resolved and
\* carries the id the Message Store gave to the message of its event.
C4_AckBeforeCommit ==
    /\ [](\A t \in TaskIds : \A i \in DOMAIN tasks[t].acks :
             ~tasks[t].acks[i].err => tasks[t].acks[i].msg.id = 0)
    /\ [][\A t \in TaskIds :
             (Len(tasks'[t].acks) > Len(tasks[t].acks) /\ ~Last(tasks'[t].acks).err)
             => /\ tasks'[t].pc \in {"file", "msg"}
                /\ tasks'[t].resp = 0
                /\ \A m \in DOMAIN messages' : messages'[m].task # t]_vars
    /\ [](\A i \in DOMAIN emits :
             LET t == emits[i].task
             IN /\ tasks[t].pc = "done"
                /\ tasks[t].resp # 0
                /\ emits[i].msg.id = tasks[t].resp
                /\ emits[i].msg.id \in MessagesBy(t))

\* C4 witness: one event is acked and its message not yet stored; another,
\* handled by a new-conversation handler, was acked, stored and broadcast.
C4_Witness ==
    \E t1, t2 \in TaskIds :
        /\ tasks[t1].acks # <<>> /\ ~tasks[t1].acks[1].err
        /\ tasks[t1].pc = "msg" /\ MessagesBy(t1) = {}
        /\ tasks[t2].acks # <<>> /\ ~tasks[t2].acks[1].err
        /\ tasks[t2].pc = "done" /\ EmitsBy(t2) # <<>>
        /\ tasks[t2].handler # "new"

\* C5: when insertFile or insertMessage is rejected for a NEW_MESSAGE event
\* sent with a callback, the callback has been invoked twice, first with
\* (null, provisional message) and then with the error, and nothing is
\* broadcast for the event.
C5_ErrorAfterAck ==
    \A t \in TaskIds :
        (/\ tasks[t].event = "NEW_MESSAGE" /\ tasks[t].hasFn
         /\ tasks[t].rejected /\ tasks[t].pc = "done")
        => /\ Len(tasks[t].acks) = 2
           /\ ~tasks[t].acks[1].err
           /\ tasks[t].acks[1].msg.conversationId = tasks[t].conversationId
           /\ tasks[t].acks[2].err
           /\ EmitsBy(t) = <<>>

\* C5 witness: one NEW_MESSAGE event failed at insertFile and another at
\* insertMessage, both sent with a callback.
C5_Witness ==
    \E t1, t2 \in TaskIds :
        /\ tasks[t1].event = "NEW_MESSAGE" /\ tasks[t2].event = "NEW_MESSAGE"
        /\ tasks[t1].hasFn /\ tasks[t2].hasFn
        /\ tasks[t1].rejected /\ tasks[t2].rejected
        /\ tasks[t1].pc = "done" /\ tasks[t2].pc = "done"
        /\ tasks[t1].attachment.present /\ tasks[t1].attachment.id = 0
        /\ ~tasks[t2].attachment.present
        /\ Len(tasks[t1].acks) = 2 /\ Len(tasks[t2].acks) = 2

\* C6: for a CREATE_NEW_MESSAGE event sent with a callback, on every path
\* the callback receives the provisional ack once the conversation is
\* known (found or created), and a rejected store call is reported to it
\* as an error.
C6_CallbackOnEveryPath ==
    \A t \in TaskIds :
        (IsCreate(t) /\ tasks[t].hasFn /\ tasks[t].pc = "done")
        => /\ (tasks[t].convoIdIfExist # 0 \/ tasks[t].created # 0)
                => tasks[t].acks # <<>> /\ ~tasks[t].acks[1].err
           /\ tasks[t].rejected
                => tasks[t].acks # <<>> /\ Last(tasks[t].acks).err

\* C9: a connection is in user#<its user's id> from its initialisation on,
\* so before any of its events is handled; initialisation joins no other
\* channel, the pending fetch joins none, and when the fetch resolves the
\* connection joins convo#<id> for exactly the ids returned.
C9_Bootstrap ==
    /\ [](\A t \in TaskIds :
             tasks[t].pc # "idle" =>
                UserChannel(socks[tasks[t].sock].user) \in socks[tasks[t].sock].rooms)
    /\ [][\A s \in SocketIds :
             /\ (socks[s].state = "off" /\ socks'[s].state # "off")
                   => socks'[s].rooms = {UserChannel(socks'[s].user)}
             /\ (socks[s].state = "fetching" /\ socks'[s].state # "fetching")
                   => \A c \in DOMAIN convos' :
                         ConvoChannel(c) \in socks'[s].rooms
                            => ConvoChannel(c) \in socks[s].rooms
             /\ (socks[s].state = "fetched" /\ socks'[s].state = "ready")
                   => socks'[s].rooms =
                         socks[s].rooms \cup {ConvoChannel(i) : i \in socks[s].fetched}]_vars

\* C9 witness: a connection whose fetch returned a conversation it had not
\* joined has joined it, and an event has been handled on that connection.
C9_Witness ==
    \E s \in SocketIds, t \in TaskIds :
        /\ socks[s].state = "ready"
        /\ socks[s].fetched # {}
        /\ tasks[t].sock = s /\ tasks[t].pc = "done"
        /\ \E c \in socks[s].fetched : convos[c].task # t

\* C10: the fan-out of a new conversation k joins to convo#<k> every
\* connection that is in user#<p> for a participant p, and joins no
\* connection that is in no participant's user channel.
C10_FanOut ==
    [][\A t \in TaskIds :
          (tasks[t].pc = "createDone" /\ tasks'[t].pc = "msg")
          => LET k == tasks[t].created
                 P == SeqToSet(convos[k].users)
                 OfParticipant(s) == \E p \in P : UserChannel(p) \in socks[s].rooms
             IN \A s \in SocketIds :
                   /\ OfParticipant(s) => ConvoChannel(k) \in socks'[s].rooms
                   /\ (ConvoChannel(k) \in socks'[s].rooms
                          /\ ConvoChannel(k) \notin socks[s].rooms)
                        => OfParticipant(s)]_vars

\* C11: in the new-conversation handlers a message sent with an attachment
\* is stored with the id the Attachment Resolver returned for it, as in the
\* handler of NEW_MESSAGE.
C11_AttachmentResolved ==
    \A m \in DOMAIN messages :
        LET tk == tasks[messages[m].task]
        IN (tk.handler \in {"single", "group"} /\ tk.attachment.present)
           => /\ messages[m].attachment_id \in 1..files
              /\ messages[m].attachment_id = tk.attachment.id

\* C12: in the handler of a NEW_MESSAGE event the provisional ack comes
\* first, the attachment (when there is one) is stored before the message,
\* the message is stored with the id the Attachment Resolver returned, the
\* broadcast follows the storing of the message, and a successful event
\* produces exactly one broadcast, NEW_MESSAGE, that goes to
\* convo#<conversationId> and to no other channel.
C12_NewMessageSteps ==
    \A t \in TaskIds :
        tasks[t].event = "NEW_MESSAGE" =>
           LET tk == tasks[t]
               es == EmitsBy(t)
           IN /\ (tk.hasFn /\ tk.pc # "idle") =>
                    tk.acks # <<>> /\ ~tk.acks[1].err
              /\ tk.pc = "file" => MessagesBy(t) = {} /\ es = <<>>
              /\ \A m \in MessagesBy(t) :
                    /\ tk.attachment.present =>
                          /\ messages[m].attachment_id \in 1..files
                          /\ messages[m].attachment_id = tk.attachment.id
                    /\ ~tk.attachment.present => messages[m].attachment_id = 0
              /\ es # <<>> => MessagesBy(t) # {}
              /\ Succeeded(t) =>
                    /\ Len(es) = 1
                    /\ es[1].event = "NEW_MESSAGE"
                    /\ es[1].chan = ConvoChannel(tk.conversationId)
                    /\ es[1].rooms = {ConvoChannel(tk.conversationId)}

\* Two broadcasts are NEW_MESSAGE broadcasts of the same conversation.
SameConvoNewMessage(i, j) ==
    /\ emits[i].event = "NEW_MESSAGE" /\ emits[j].event = "NEW_MESSAGE"
    /\ emits[i].chan = emits[j].chan

\* C13 as stated: the NEW_MESSAGE broadcasts of a conversation are emitted
\* in the order in which the Message Store inserted their messages, under
\* every interleaving.
C13_BroadcastInInsertionOrder ==
    \A i, j \in DOMAIN emits :
        (SameConvoNewMessage(i, j) /\ i < j) => emits[i].msg.id < emits[j].msg.id

\* C13 amended: when a message is inserted only after the broadcast of
\* another message of the conversation was emitted, the two broadcasts are
\* in insertion order; the order is not fixed when both messages were
\* inserted before either was broadcast.
C13_InOrderWithoutOverlap ==
    \A i, j \in DOMAIN emits :
        (SameConvoNewMessage(i, j) /\ i # j /\ emits[i].stored < emits[j].msg.id)
        => i < j /\ emits[i].msg.id < emits[j].msg.id

\* C13 witness: two NEW_MESSAGE events of one conversation, the second
\* message inserted after the first was broadcast, both broadcast.
C13_Witness ==
    \E i, j \in DOMAIN emits :
        /\ SameConvoNewMessage(i, j) /\ i < j
        /\ tasks[emits[i].task].event = "NEW_MESSAGE"
        /\ tasks[emits[j].task].event = "NEW_MESSAGE"
        /\ emits[i].stored < emits[j].msg.id

\* The event is handled by a new-conversation handler.
IsNewConvoHandler(t) == tasks[t].handler \in {"single", "group"}

\* The event's callback was given the provisional message.
AckedProvisional(t) == \E i \in DOMAIN tasks[t].acks : ~tasks[t].acks[i].err

\* The connected sockets of the participants of conversation c.
ParticipantSockets(c) ==
    {s \in Connected : socks[s].user \in SeqToSet(convos[c].users)}

\* C14: in the new-conversation handlers the conversation is created, the
\* participants' sockets are subscribed and the provisional ack is given
\* before the message is stored, and the message is stored before anything
\* is broadcast; a failed creation leaves subscriptions, acks, messages and
\* broadcasts untouched; a failed insertMessage after the creation leaves
\* the conversation and the subscriptions in place and broadcasts nothing.
C14_NewConvoOrderAndFailure ==
    /\ [][\A t \in TaskIds :
             (tasks[t].pc = "create" /\ tasks'[t].pc = "createDone"
                /\ tasks'[t].created # 0)
             => /\ convos' = Append(convos, convos'[tasks'[t].created])
                /\ convos'[tasks'[t].created].task = t
                /\ socks' = socks
                /\ tasks'[t].acks = tasks[t].acks
                /\ messages' = messages
                /\ emits' = emits]_vars
    /\ [][\A t \in TaskIds :
             (tasks[t].pc = "createDone" /\ tasks'[t].pc = "msg")
             => /\ ConvosBy(t) = {tasks[t].created}
                /\ \A s \in ParticipantSockets(tasks[t].created) :
                      ConvoChannel(tasks[t].created) \in socks'[s].rooms
                /\ tasks'[t].acks =
                      Append(tasks[t].acks,
                             [err |-> FALSE,
                              msg |-> BroadcastMessage(tasks[t], tasks[t].created)])
                /\ messages' = messages
                /\ emits' = emits]_vars
    /\ [](\A t \in TaskIds : IsNewConvoHandler(t) =>
             /\ AckedProvisional(t) => ConvosBy(t) = {tasks[t].created}
             /\ MessagesBy(t) # {} => AckedProvisional(t)
             /\ EmitsBy(t) # <<>> => MessagesBy(t) # {})
    /\ [][\A t \in TaskIds :
             (\/ /\ tasks[t].pc = "create" /\ tasks'[t].pc = "createDone"
                    /\ tasks'[t].created = 0
                 \/ /\ tasks[t].pc = "createDone" /\ tasks'[t].pc = "done")
             => /\ socks' = socks
                /\ convos' = convos
                /\ messages' = messages
                /\ emits' = emits
                /\ ~AckedProvisional(t)'
                /\ tasks'[t].pc = "done" => Last(tasks'[t].acks).err]_vars
    /\ [](\A t \in TaskIds :
             (IsNewConvoHandler(t) /\ tasks[t].rejected /\ tasks[t].created = 0)
             => /\ ConvosBy(t) = {} /\ MessagesBy(t) = {} /\ EmitsBy(t) = <<>>
                /\ ~AckedProvisional(t))
    /\ [](\A t \in TaskIds :
             (IsNewConvoHandler(t) /\ tasks[t].rejected /\ tasks[t].created # 0)
             => /\ ConvosBy(t) = {tasks[t].created}
                /\ tasks[t].sock \in ParticipantSockets(tasks[t].created)
                      => ConvoChannel(tasks[t].created)
                            \in socks[tasks[t].sock].rooms
                /\ MessagesBy(t) = {}
                /\ EmitsBy(t) = <<>>)
    /\ [][/\ \A s \in SocketIds : socks[s].rooms \subseteq socks'[s].rooms
          /\ \A c \in DOMAIN convos : c \in DOMAIN convos' /\ convos'[c] = convos[c]]_vars

\* C14 witness: one new-conversation event failed at createNewConversation,
\* and another created its conversation, subscribed a participant's socket
\* and then failed at insertMessage.
C14_Witness ==
    \E t1, t2 \in TaskIds :
        /\ IsNewConvoHandler(t1) /\ tasks[t1].pc = "done"
        /\ tasks[t1].rejected /\ tasks[t1].created = 0
        /\ tasks[t1].convoIdIfExist = 0
        /\ IsNewConvoHandler(t2) /\ tasks[t2].pc = "done"
        /\ tasks[t2].rejected /\ tasks[t2].created # 0
        /\ tasks[t2].sock \in ParticipantSockets(tasks[t2].created)

\* C15: a NEW_MESSAGE event whose store call is not rejected stores one
\* message with the sender id and the conversation id it names and
\* broadcasts it to convo#<conversationId>, whether or not the sender
\* participates in that conversation (or is the user of the connection).
C15_NoParticipationCheck ==
    \A t \in TaskIds :
        (tasks[t].event = "NEW_MESSAGE" /\ Succeeded(t))
        => LET tk == tasks[t]
               es == EmitsBy(t)
           IN /\ Cardinality(MessagesBy(t)) = 1
              /\ \A m \in MessagesBy(t) :
                    /\ messages[m].sender_id = tk.sender.id
                    /\ messages[m].conversation_id = tk.conversationId
              /\ Len(es) = 1
              /\ es[1].event = "NEW_MESSAGE"
              /\ es[1].chan = ConvoChannel(tk.conversationId)
              /\ es[1].msg.sender = tk.sender
              /\ es[1].msg.conversationId = tk.conversationId

\* C15 witness: a NEW_MESSAGE event naming a sender who is neither a
\* participant of the existing conversation nor the user of the connection
\* was stored and broadcast.
C15_Witness ==
    \E t \in TaskIds :
        /\ tasks[t].event = "NEW_MESSAGE" /\ Succeeded(t)
        /\ tasks[t].conversationId \in DOMAIN convos
        /\ tasks[t].sender.id \notin SeqToSet(convos[tasks[t].conversationId].users)
        /\ tasks[t].sender.id # socks[tasks[t].sock].user
        /\ EmitsBy(t) # <<>>

\* C16: whatever canReply the client sends (true, false or nothing), the
\* provisional message given to the callback and every broadcast message
\* have canReply true, in all three handlers.
C16_CanReplyAlwaysTrue ==
    /\ \A t \in TaskIds : \A i \in DOMAIN tasks[t].acks :
          ~tasks[t].acks[i].err => tasks[t].acks[i].msg.canReply = "true"
    /\ \A i \in DOMAIN emits : emits[i].msg.canReply = "true"

\* C16 witness: a NEW_MESSAGE event and an event handled by a
\* new-conversation handler were both sent with canReply false, acked and
\* broadcast.
C16_Witness ==
    \E t1, t2 \in TaskIds :
        /\ tasks[t1].event = "NEW_MESSAGE" /\ IsNewConvoHandler(t2)
        /\ \A t \in {t1, t2} :
              /\ tasks[t].canReply = "false"
              /\ AckedProvisional(t)
              /\ EmitsBy(t) # <<>>

\* Connection s belongs to a participant of the stored conversation k.
ParticipantConnection(s, k) ==
    /\ k \in DOMAIN convos
    /\ s \in ParticipantSockets(k)

\* C17: a connection of a participant of a conversation k is eventually
\* subscribed to convo#<k>, unless its bootstrap fetch was rejected: by the
\* fan-out when it was initialised before it, by its own fetch otherwise
\* (a fetch answered after the conversation was stored returns it).
C17_EventuallySubscribed ==
    /\ \A s \in SocketIds, k \in TaskIds :
          ParticipantConnection(s, k)
          ~> (ConvoChannel(k) \in socks[s].rooms \/ socks[s].state = "failed")
    /\ [][\A s \in SocketIds :
             (socks[s].state = "fetching" /\ socks'[s].state = "fetched")
             => socks'[s].fetched =
                   {k \in DOMAIN convos :
                       socks[s].user \in SeqToSet(convos[k].users)}]_vars

\* C17 witness: of two connections of participants of a conversation, one
\* whose fetch returned nothing was subscribed by the fan-out and the other,
\* initialised later, by its own fetch.
C17_Witness ==
    \E s1, s2 \in SocketIds, k \in DOMAIN convos :
        /\ s1 # s2
        /\ ParticipantConnection(s1, k) /\ ParticipantConnection(s2, k)
        /\ socks[s1].state = "ready" /\ socks[s1].fetched = {}
        /\ ConvoChannel(k) \in socks[s1].rooms
        /\ socks[s2].state = "ready" /\ k \in socks[s2].fetched
        /\ ConvoChannel(k) \in socks[s2].rooms

\* C18: every broadcast carries the id of a stored message that has the
\* sender id and the conversation id of the broadcast and was stored for
\* the same event, and no event stores more than one message.
C18_BroadcastIsPersisted ==
    /\ \A i \in DOMAIN emits :
          LET e == emits[i]
          IN /\ e.event \in {"NEW_MESSAGE", "FIRST_TIME_MESSAGE"}
             /\ e.msg.id \in DOMAIN messages
             /\ messages[e.msg.id].task = e.task
             /\ messages[e.msg.id].sender_id = e.msg.sender.id
             /\ messages[e.msg.id].conversation_id = e.msg.conversationId
    /\ \A t \in TaskIds : Cardinality(MessagesBy(t)) <= 1

\* C18 witness: a NEW_MESSAGE broadcast of one event and a
\* FIRST_TIME_MESSAGE broadcast of another were emitted.
C18_Witness ==
    \E i, j \in DOMAIN emits :
        /\ emits[i].event = "NEW_MESSAGE"
        /\ emits[j].event = "FIRST_TIME_MESSAGE"
        /\ emits[i].task # emits[j].task

\* The event's callback was given an error.
AckedError(t) == \E i \in DOMAIN tasks[t].acks : tasks[t].acks[i].err

\* C19: the callback of an event is invoked at most twice, at most once
\* with the provisional message and at most once with an error, never with
\* the provisional message after an error; and nothing is broadcast for an
\* event after its callback was given an error.
C19_AckProtocol ==
    /\ [](\A t \in TaskIds :
             LET acks == tasks[t].acks
             IN /\ Len(acks) <= 2
                /\ Cardinality({i \in DOMAIN acks : ~acks[i].err}) <= 1
                /\ Cardinality({i \in DOMAIN acks : acks[i].err}) <= 1
                /\ \A i, j \in DOMAIN acks :
                      (i < j /\ acks[i].err) => acks[j].err)
    /\ [][\A t \in TaskIds :
             AckedError(t) => /\ EmitsBy(t)' = EmitsBy(t)
                              /\ tasks'[t].acks = tasks[t].acks]_vars

\* C19 witness: the callback of one event was given the provisional message
\* and then an error, the callback of another only an error.
C19_Witness ==
    \E t1, t2 \in TaskIds :
        /\ Len(tasks[t1].acks) = 2
        /\ ~tasks[t1].acks[1].err /\ tasks[t1].acks[2].err
        /\ Len(tasks[t2].acks) = 1 /\ tasks[t2].acks[1].err

====
